---- MODULE Spec2Model ----
(***************************************************************************)
(* Verification model of TransformerSum's abstractive summarizer           *)
(* (src/abstractive.py): the batch trimmer, the target framing done by     *)
(* prepare_data, the optimizer/schedule construction and the test loop.    *)
(*                                                                         *)
(* Each component has its own specification over the shared variables;     *)
(* the variables of the other components stay at their idle values.        *)
(***************************************************************************)
EXTENDS Integers, Sequences, FiniteSets, TLC

VARIABLES
    \* ---- trim_batch harness
    input_ids,        \* 2-D id batch: a sequence of rows
    attention_mask,   \* parallel mask, or None
    pad_token_id,     \* the pad id trim_batch is called with
    trim_out,         \* result of trim_batch(input_ids, ...)
    trim_out2,        \* result of trim_batch applied to trim_out
    trim_pc,
    \* ---- prepare_data / convert_to_features
    example_batch,    \* the raw batch: articles and highlights, already word-pieced
    features,         \* what convert_to_features returned, or None
    frame_pc,
    \* ---- the hyperparameter bag, self.hparams
    hparams,
    \* ---- configure_optimizers
    num_train_batches,  \* len(self.train_dataloader_object)
    named_parameters,   \* names yielded by self.named_parameters(), in order
    t_total,            \* the local t_total, or None before it is computed
    optimizer,          \* the AdamW built from the two groups, or None
    scheduler,          \* the local scheduler, or None while unbound
    opt_log,            \* what logger.error received
    opt_pc,             \* "start", then "returned" or "raised"
    \* ---- the test loop
    test_dataset,       \* self.dataset["test"]: the encoded test examples, in order
    batch_idx,          \* index of the next test batch
    outputs,            \* what the test steps of this epoch returned, in order
    predictions_file,   \* test_predictions.txt
    targets_file,       \* test_targets.txt
    test_pc,            \* "start", "loop", then "done" or "raised"
    epoch,              \* test epochs completed so far
    aggregator,         \* the records held by the last BootstrapAggregator built
    \* ---- _step (training_step / validation_step)
    tokenizer_pad_token_id,  \* self.tokenizer.pad_token_id of the loaded tokenizer
    step_batch,         \* the batch handed to _step
    forward_args,       \* what _step passed to self.forward, or None
    step_pc,
    \* ---- the training run driven by the trainer
    batches_done,       \* batches processed so far
    global_step,        \* optimizer updates so far (trainer.global_step)
    scheduler_steps,    \* scheduler.step() calls made by the trainer so far
    train_pc

trimVars == <<input_ids, attention_mask, pad_token_id, trim_out, trim_out2, trim_pc>>

frameVars == <<example_batch, features, frame_pc>>

optVars == <<num_train_batches, named_parameters, t_total, optimizer, scheduler,
             opt_log, opt_pc>>

testVars == <<test_dataset, batch_idx, outputs, predictions_file, targets_file, test_pc>>

epochVars == <<epoch, aggregator>>

stepVars == <<tokenizer_pad_token_id, step_batch, forward_args, step_pc>>

trainVars == <<batches_done, global_step, scheduler_steps, train_pc>>

vars == <<trimVars, frameVars, hparams, optVars, testVars, epochVars, stepVars, trainVars>>

(***************************************************************************)
(* Bounds                                                                  *)
(***************************************************************************)
MaxRows == 2
MaxCols == 3
\* tokenizer.max_len, scaled down (512 for bert-base-uncased)
max_len == 5
\* longest raw text, in word pieces; longer than max_len - 4 so that truncation happens
MaxTextLen == 4
\* examples handed to one convert_to_features call
MaxFrameBatch == 1
\* largest small step cap, accumulation factor, loader length, epoch count, warmup
MaxSteps == 2
MaxAccum == 4
MaxTrainBatches == 3
MaxEpochs == 2
MaxWarmup == 1
\* longest generated parameter name, in name pieces
MaxNameLen == 3
\* test examples in the dataset, and the largest configured batch size
MaxTestExamples == 3
MaxTestBatch == 2
\* test epochs run one after the other
MaxTestEpochs == 2

\* Python's None, for values that are otherwise sequences or records.
None == <<>>

(***************************************************************************)
(* trim_batch (src/abstractive.py 26-34)                                   *)
(***************************************************************************)
NumRows(m) == Len(m)
NumCols(m) == Len(m[1])

\* input_ids.ne(pad_token_id): elementwise "differs from pad".
Ne(m, pad) == [i \in 1..NumRows(m) |-> [j \in 1..Len(m[i]) |-> m[i][j] # pad]]

\* A plausible slip: reduce with all() instead of any().
AllDim0(b) == [j \in 1..NumCols(b) |-> \A i \in 1..NumRows(b) : b[i][j]]

\* .any(dim=0): one boolean per column, true when some row is true.
AnyDim0(b) == [j \in 1..NumCols(b) |-> \E i \in 1..NumRows(b) : b[i][j]]

\* Boolean-mask indexing of one row: the entries whose mask bit is set, in order.
RECURSIVE MaskedSelect(_, _, _)
MaskedSelect(row, keep, j) ==
    IF j > Len(row) THEN <<>>
    ELSE IF keep[j] THEN <<row[j]>> \o MaskedSelect(row, keep, j + 1)
         ELSE MaskedSelect(row, keep, j + 1)

\* A plausible slip: slice to the number of kept columns (assumes right padding).
IndexColsPrefix(m, keep) ==
    LET n == Cardinality({j \in 1..Len(keep) : keep[j]})
    IN  [i \in 1..NumRows(m) |-> SubSeq(m[i], 1, n)]

\* m[:, keep]
IndexCols(m, keep) == [i \in 1..NumRows(m) |-> MaskedSelect(m[i], keep, 1)]

\* The value returned: ids alone (mask = None) or the pair (ids, mask).
trim_batch(ids, pad, mask) ==
    LET keep_column_mask == AnyDim0(Ne(ids, pad))
    IN  IF mask = None
        THEN [ids |-> IndexCols(ids, keep_column_mask), mask |-> None]
        ELSE [ids |-> IndexCols(ids, keep_column_mask),
              mask |-> IndexCols(mask, keep_column_mask)]

(***************************************************************************)
(* Inputs of the trim_batch harness                                        *)
(***************************************************************************)
TrimIds == {0, 5}
TrimPads == {0, 5}
Matrices(r, c, S) == [1..r -> [1..c -> S]]
SpecExampleBatch == << <<5, 0, 0>>, <<5, 7, 0>> >>
TrimBatches ==
    UNION {Matrices(r, c, TrimIds) : r \in 1..MaxRows, c \in 1..MaxCols}
        \cup {SpecExampleBatch}

\* The mask a tokenizer would produce for ids padded with pad.
MaskOf(m, pad) ==
    [i \in 1..NumRows(m) |-> [j \in 1..Len(m[i]) |-> IF m[i][j] # pad THEN 1 ELSE 0]]

NoTrim == [ids |-> None, mask |-> None]

InitTrimIdle ==
    /\ input_ids = None
    /\ attention_mask = None
    /\ pad_token_id = 0
    /\ trim_out = NoTrim
    /\ trim_out2 = NoTrim
    /\ trim_pc = "idle"

InitTrim ==
    /\ input_ids \in TrimBatches
    /\ pad_token_id \in TrimPads
    /\ attention_mask \in {None, MaskOf(input_ids, pad_token_id)}
    /\ trim_out = NoTrim
    /\ trim_out2 = NoTrim
    /\ trim_pc = "start"

\* trim_batch(input_ids, pad_token_id, attention_mask)
TrimBatch ==
    /\ trim_pc = "start"
    /\ trim_out' = trim_batch(input_ids, pad_token_id, attention_mask)
    /\ trim_pc' = "trimmed"
    /\ UNCHANGED <<input_ids, attention_mask, pad_token_id, trim_out2>>
    /\ UNCHANGED <<frameVars, hparams, optVars, testVars, epochVars, stepVars, trainVars>>

\* trim_batch applied to its own output, with the same pad id
TrimAgain ==
    /\ trim_pc = "trimmed"
    /\ trim_out2' = trim_batch(trim_out.ids, pad_token_id, trim_out.mask)
    /\ trim_pc' = "retrimmed"
    /\ UNCHANGED <<input_ids, attention_mask, pad_token_id, trim_out>>
    /\ UNCHANGED <<frameVars, hparams, optVars, testVars, epochVars, stepVars, trainVars>>


(***************************************************************************)
(* Tokenizer vocabulary (bert-base-uncased) and the target markers         *)
(***************************************************************************)
PAD_ID == 0
target_boseq_token_id == 1
target_eoseq_token_id == 2
CLS_ID == 101
SEP_ID == 102
\* ordinary word-piece ids a text is made of
WordIds == {7, 8}

Min(a, b) == IF a < b THEN a ELSE b
Max(a, b) == IF a > b THEN a ELSE b
Repeat(x, n) == [k \in 1..n |-> x]

\* helpers.pad(data, pad_id, width): right-pad every row with pad_id to width;
\* a row already at or over width is left as it is.
pad(data, pad_id, width) ==
    [i \in 1..Len(data) |-> data[i] \o Repeat(pad_id, Max(0, width - Len(data[i])))]

\* tokenizer.batch_encode_plus(..., truncation=True, max_length=max_length)["input_ids"]
\* for one text: [CLS] pieces [SEP], the pieces cut so that the whole fits max_length.
Encode(text, max_length) ==
    <<CLS_ID>> \o SubSeq(text, 1, Min(Len(text), Max(0, max_length - 2))) \o <<SEP_ID>>

\* batch_encode_plus(articles, pad_to_max_length=True, truncation=True)
EncodeArticles(articles) ==
    LET ids == pad([i \in 1..Len(articles) |-> Encode(articles[i], max_len)],
                   PAD_ID, max_len)
    IN  [input_ids |-> ids,
         attention_mask |->
            [i \in 1..Len(ids) |->
                [j \in 1..Len(ids[i]) |->
                    IF j <= Len(Encode(articles[i], max_len)) THEN 1 ELSE 0]]]

\* A plausible slip: forget to leave room for the two target markers.
TargetMaxLengthFull == max_len

\* max_length=(self.tokenizer.max_len - 2)
TargetMaxLength == max_len - 2

\* input_ids.insert(0, boseq); input_ids.append(eoseq)
Frame(ids) == <<target_boseq_token_id>> \o ids \o <<target_eoseq_token_id>>

\* A plausible slip: the mask is taken before the markers are added.
FrameMaskBeforeMarkers(framed) == Repeat(1, Len(framed) - 2)

\* attention_mask = [1] * len(input_ids), input_ids being the framed ids
FrameMask(framed) == Repeat(1, Len(framed))

convert_to_features(batch) ==
    LET articles == batch.articles
        highlights == batch.highlights
        articles_encoded == EncodeArticles(articles)
        framed == [i \in 1..Len(highlights) |->
                      Frame(Encode(highlights[i], TargetMaxLength))]
        highlights_attention_masks == [i \in 1..Len(framed) |-> FrameMask(framed[i])]
    IN  [source |-> articles_encoded.input_ids,
         target |-> pad(framed, PAD_ID, max_len),
         source_mask |-> articles_encoded.attention_mask,
         target_mask |-> pad(highlights_attention_masks, 0, max_len)]

(***************************************************************************)
(* Inputs of convert_to_features                                           *)
(***************************************************************************)
SeqsUpTo(S, n) == UNION {[1..k -> S] : k \in 0..n}
Texts == SeqsUpTo(WordIds, MaxTextLen)
\* an empty, an exactly fitting and an over-long article
Articles == {<<>>, Repeat(8, max_len - 2), Repeat(7, MaxTextLen)}
ExampleBatches ==
    UNION {[articles : [1..n -> Articles], highlights : [1..n -> Texts]] :
              n \in 1..MaxFrameBatch}

InitFrameIdle ==
    /\ example_batch = None
    /\ features = None
    /\ frame_pc = "idle"

InitFrame ==
    /\ example_batch \in ExampleBatches
    /\ features = None
    /\ frame_pc = "start"

\* dataset.map(convert_to_features, batched=True) on one batch
ConvertToFeatures ==
    /\ frame_pc = "start"
    /\ features' = convert_to_features(example_batch)
    /\ frame_pc' = "done"
    /\ UNCHANGED example_batch
    /\ UNCHANGED <<trimVars, hparams, optVars, testVars, epochVars, stepVars, trainVars>>


(***************************************************************************)
(* hparams (src/abstractive.py 504-597, and the trainer's arguments)       *)
(***************************************************************************)
\* argparse's falsy default of --use_scheduler
NoScheduler == ""
\* --weight_decay default 1e-2, in hundredths
DefaultWeightDecay == 1

DefaultHparams ==
    [max_steps |-> None,               \* None, or <<n>> for the integer n
     accumulate_grad_batches |-> 1,
     max_epochs |-> 1,
     overfit_pct |-> 0,                \* a fraction, in hundredths
     warmup_steps |-> 0,
     use_scheduler |-> NoScheduler,
     weight_decay |-> DefaultWeightDecay,
     learning_rate |-> "learning_rate",
     adam_epsilon |-> "adam_epsilon",
     batch_size |-> 1,
     test_batch_size |-> None,         \* None, or <<n>>
     save_percentage |-> 0]            \* a fraction, in hundredths

InitHparamsIdle == hparams = DefaultHparams

(***************************************************************************)
(* configure_optimizers (src/abstractive.py 200-281)                       *)
(***************************************************************************)
\* A plausible slip: the step cap taken as the number of scheduler steps.
TotalStepsUnscaled(hp, n_batches) ==
    IF hp.max_steps # None /\ hp.max_steps[1] > 0
    THEN hp.max_steps[1]
    ELSE LET t == (n_batches * hp.max_epochs) \div hp.accumulate_grad_batches
         IN  IF hp.overfit_pct > 0 THEN (t * hp.overfit_pct) \div 100 ELSE t

\* lines 204-218; `max_steps and max_steps > 0` is false for None and for 0
TotalSteps(hp, n_batches) ==
    IF hp.max_steps # None /\ hp.max_steps[1] # 0 /\ hp.max_steps[1] > 0
    THEN hp.max_steps[1] * hp.accumulate_grad_batches
    ELSE LET t == (n_batches * hp.max_epochs) \div hp.accumulate_grad_batches
         IN  IF hp.overfit_pct > 0 THEN (t * hp.overfit_pct) \div 100 ELSE t

\* no_decay = ["bias", "LayerNorm.weight"]; a name is a sequence of name pieces
no_decay == << <<"bias">>, <<"LayerNorm", ".", "weight">> >>

\* Python's `nd in n` on strings: nd occurs as a contiguous run of n
IsSubstring(nd, n) ==
    \E i \in 1..(Len(n) - Len(nd) + 1) : SubSeq(n, i, i + Len(nd) - 1) = nd

\* A plausible slip: all() where any() is meant.
AllNoDecay(n) == \A k \in 1..Len(no_decay) : IsSubstring(no_decay[k], n)

\* any(nd in n for nd in no_decay)
AnyNoDecay(n) == \E k \in 1..Len(no_decay) : IsSubstring(no_decay[k], n)

\* the list comprehension [p for n, p in named_parameters if ...], in order
RECURSIVE ParamsWhere(_, _, _)
ParamsWhere(names, wanted, k) ==
    IF k > Len(names) THEN <<>>
    ELSE IF AnyNoDecay(names[k]) = wanted
         THEN <<names[k]>> \o ParamsWhere(names, wanted, k + 1)
         ELSE ParamsWhere(names, wanted, k + 1)

\* lines 221-238
optimizer_grouped_parameters(hp, names) ==
    << [params |-> ParamsWhere(names, FALSE, 1), weight_decay |-> hp.weight_decay],
       [params |-> ParamsWhere(names, TRUE, 1), weight_decay |-> 0] >>

\* optim.AdamW(optimizer_grouped_parameters, lr=..., eps=...)
AdamW(groups, hp) ==
    [param_groups |-> groups, lr |-> hp.learning_rate, eps |-> hp.adam_epsilon]

\* LambdaLR(optimizer, partial(lr_lambda_func, num_warmup_steps, num_training_steps), -1)
LinearSchedule(hp, total) ==
    [kind |-> "linear",
     num_warmup_steps |-> hp.warmup_steps * hp.accumulate_grad_batches,
     total_steps |-> total]

\* OneCycleLR(optimizer, max_lr=learning_rate, total_steps=t_total)
OneCycleSchedule(hp, total) ==
    [kind |-> "onecycle", num_warmup_steps |-> 0, total_steps |-> total]

\* the message of lines 270-274
InvalidSchedulerMessage(hp) ==
    [level |-> "error", text |-> <<"The value ", hp.use_scheduler, " for --use_scheduler is invalid.">>]

(***************************************************************************)
(* Inputs of configure_optimizers                                          *)
(***************************************************************************)
MaxStepsValues ==
    {None, <<-1>>, <<0>>, <<100>>} \cup {<<k>> : k \in 1..MaxSteps}
OverfitPcts == {0, 10, 50}
UseSchedulerValues == {NoScheduler, "linear", "onecycle", "cosine"}

NamePieces == {"bias", "LayerNorm", ".", "weight"}
GeneratedNames == UNION {[1..k -> NamePieces] : k \in 1..MaxNameLen}
\* the two names the documentation gives
LayerNormName == <<"encoder.layer.0.attention.output", ".", "LayerNorm", ".", "weight">>
QueryName == <<"encoder.layer.0.attention.self", ".", "query", ".", "weight">>
DefaultNamedParameters == <<LayerNormName, QueryName>>

InitOptIdle ==
    /\ num_train_batches = 0
    /\ named_parameters = <<>>
    /\ t_total = None
    /\ optimizer = None
    /\ scheduler = None
    /\ opt_log = <<>>
    /\ opt_pc = "idle"

\* Either the numeric hyperparameters range and the module has the two documented
\* parameters, or the hyperparameters are the defaults and the module has one
\* more parameter of any generated name.
InitOpt ==
    /\ \/ /\ \E ms \in MaxStepsValues, agb \in 1..MaxAccum, me \in 1..MaxEpochs,
                pct \in OverfitPcts, ws \in 0..MaxWarmup, us \in UseSchedulerValues :
                hparams = [DefaultHparams EXCEPT
                              !.max_steps = ms,
                              !.accumulate_grad_batches = agb,
                              !.max_epochs = me,
                              !.overfit_pct = pct,
                              !.warmup_steps = ws,
                              !.use_scheduler = us]
          /\ num_train_batches \in 0..MaxTrainBatches
          /\ named_parameters = DefaultNamedParameters
       \/ /\ hparams = DefaultHparams
          /\ num_train_batches = 1
          /\ \E n \in GeneratedNames :
                named_parameters = <<LayerNormName, n, QueryName>>
    /\ t_total = None
    /\ optimizer = None
    /\ scheduler = None
    /\ opt_log = <<>>
    /\ opt_pc = "start"

\* configure_optimizers with no schedule requested (line 246 false): returns optimizer
ConfigureNoScheduler ==
    /\ opt_pc = "start"
    /\ hparams.use_scheduler = NoScheduler
    /\ t_total' = <<TotalSteps(hparams, num_train_batches)>>
    /\ optimizer' = AdamW(optimizer_grouped_parameters(hparams, named_parameters), hparams)
    /\ scheduler' = None
    /\ opt_log' = opt_log
    /\ opt_pc' = "returned"
    /\ UNCHANGED <<num_train_batches, named_parameters, hparams>>
    /\ UNCHANGED <<trimVars, frameVars, testVars, epochVars, stepVars, trainVars>>

\* configure_optimizers with "linear" or "onecycle": returns ([optimizer], [scheduler_dict])
ConfigureWithScheduler ==
    /\ opt_pc = "start"
    /\ hparams.use_scheduler \in {"linear", "onecycle"}
    /\ t_total' = <<TotalSteps(hparams, num_train_batches)>>
    /\ optimizer' = AdamW(optimizer_grouped_parameters(hparams, named_parameters), hparams)
    /\ scheduler' =
          IF hparams.use_scheduler = "linear"
          THEN LinearSchedule(hparams, TotalSteps(hparams, num_train_batches))
          ELSE OneCycleSchedule(hparams, TotalSteps(hparams, num_train_batches))
    /\ opt_log' = opt_log
    /\ opt_pc' = "returned"
    /\ UNCHANGED <<num_train_batches, named_parameters, hparams>>
    /\ UNCHANGED <<trimVars, frameVars, testVars, epochVars, stepVars, trainVars>>

\* configure_optimizers with any other truthy value: the else branch (269-274) logs
\* and binds no scheduler; line 277 then reads the unbound local `scheduler`, which
\* raises UnboundLocalError, so nothing is returned.
ConfigureInvalidScheduler ==
    /\ opt_pc = "start"
    /\ hparams.use_scheduler \notin {NoScheduler, "linear", "onecycle"}
    /\ t_total' = <<TotalSteps(hparams, num_train_batches)>>
    /\ optimizer' = AdamW(optimizer_grouped_parameters(hparams, named_parameters), hparams)
    /\ scheduler' = None
    /\ opt_log' = Append(opt_log, InvalidSchedulerMessage(hparams))
    /\ opt_pc' = "raised"
    /\ UNCHANGED <<num_train_batches, named_parameters, hparams>>
    /\ UNCHANGED <<trimVars, frameVars, testVars, epochVars, stepVars, trainVars>>

(***************************************************************************)
(* The test loop: test_dataloader, test_step, test_epoch_end               *)
(* (src/abstractive.py 177-198, 329-449, 486-491)                          *)
(***************************************************************************)
\* ids skipped by batch_decode(skip_special_tokens=True); the two target markers
\* were registered as special tokens at lines 62-64
SpecialIds == {PAD_ID, CLS_ID, SEP_ID, target_boseq_token_id, target_eoseq_token_id}

\* the word a word-piece id stands for, as a sequence of characters
WordOf(id) == IF id = 7 THEN <<"a">> ELSE <<"b", "e">>

\* tokenizer.decode of one row: the words of the non-special ids, joined by spaces
RECURSIVE DecodeFrom(_, _, _)
DecodeFrom(ids, k, first) ==
    IF k > Len(ids) THEN <<>>
    ELSE IF ids[k] \in SpecialIds THEN DecodeFrom(ids, k + 1, first)
         ELSE (IF first THEN <<>> ELSE <<" ">>) \o WordOf(ids[k])
                  \o DecodeFrom(ids, k + 1, FALSE)

\* str.strip
RECURSIVE Strip(_)
Strip(text) ==
    IF text = <<>> THEN text
    ELSE IF Head(text) = " " THEN Strip(Tail(text))
    ELSE IF text[Len(text)] = " " THEN Strip(SubSeq(text, 1, Len(text) - 1))
    ELSE text

\* lines 486-491
ids_to_clean_text(generated_ids) ==
    [k \in 1..Len(generated_ids) |-> Strip(DecodeFrom(generated_ids[k], 1, TRUE))]

\* model.generate: one row per input row, begin marker, the generated word pieces,
\* end marker, rows padded with the end marker (pad_token_id = eoseq) to one width
GeneratedIds(words) ==
    pad([k \in 1..Len(words) |-> Frame(words[k])], target_eoseq_token_id, max_len)

\* rouge_scorer.score(target, prediction): the record of one example
Score(target, prediction) == [target |-> target, prediction |-> prediction]

\* lines 183-187
EffectiveTestBatchSize(hp) ==
    IF hp.test_batch_size # None /\ hp.test_batch_size[1] # 0
    THEN hp.test_batch_size
    ELSE <<hp.batch_size>>

\* the batch the DataLoader yields for index k: full, except possibly the last
BatchAt(dataset, k, size) ==
    SubSeq(dataset, k * size + 1, Min((k + 1) * size, Len(dataset)))
NumBatches(dataset, size) == (Len(dataset) + size - 1) \div size

Column(batch, field) == [k \in 1..Len(batch) |-> batch[k][field]]

\* lines 371-374: save_percentage and random.random() < save_percentage
SaveThisBatch(hp, r) == hp.save_percentage # 0 /\ r < hp.save_percentage

\* test_step (329-390) on one batch; words: what model.generate produced per row;
\* r: random.random(); index_to_select: random.randrange(0, test_batch_size, 1).
\* predictions[index_to_select] raises IndexError past the end of the batch.
test_step(hp, batch, words, r, index_to_select) ==
    LET trimmed_source == trim_batch(Column(batch, "source"), PAD_ID,
                                     Column(batch, "source_mask"))
        target_ids == trim_batch(Column(batch, "target"), PAD_ID, None).ids
        generated_ids == GeneratedIds(words)
        predictions == ids_to_clean_text(generated_ids)
        targets == ids_to_clean_text(target_ids)
        n == Min(Len(targets), Len(predictions))
        rouge_outputs == [k \in 1..n |-> Score(targets[k], predictions[k])]
        save == SaveThisBatch(hp, r)
    IN  IF save /\ index_to_select >= Len(predictions)
        THEN [raised |-> TRUE, output |-> None]
        ELSE [raised |-> FALSE,
              output |->
                 [rouge_scores |-> rouge_outputs,
                  prediction |-> IF save THEN <<predictions[index_to_select + 1]>> ELSE None,
                  target |-> IF save THEN <<targets[index_to_select + 1]>> ELSE None]]

\* [x[field] for x in outputs if x[field] is not None]
RECURSIVE Retained(_, _, _)
Retained(outs, field, k) ==
    IF k > Len(outs) THEN <<>>
    ELSE IF outs[k][field] # None
         THEN <<outs[k][field][1]>> \o Retained(outs, field, k + 1)
         ELSE Retained(outs, field, k + 1)

\* writer.writelines(s + "\n" for s in text): text is a str, so s runs over its
\* characters and every character becomes a line of its own
WriteLines(text) == [k \in 1..Len(text) |-> <<text[k]>>]

\* the lines one writer holds after the loop of lines 433-435 over zip(predictions, targets)
RECURSIVE WrittenLines(_, _, _)
WrittenLines(texts, n, k) ==
    IF k > n THEN <<>>
    ELSE WriteLines(texts[k]) \o WrittenLines(texts, n, k + 1)

\* A plausible slip: the files are written whatever save_percentage is.
WritesFilesAlways(hp) == TRUE

\* line 419: if self.hparams.save_percentage
WritesFiles(hp) == hp.save_percentage # 0

\* a file of the output directory: absent, or its lines
AbsentFile == [exists |-> FALSE, lines |-> <<>>]
FileOf(lines) == [exists |-> TRUE, lines |-> lines]
\* left by an earlier run
StaleFile == FileOf(<< <<"o", "l", "d">> >>)

(***************************************************************************)
(* Inputs of the test loop                                                 *)
(***************************************************************************)
SavePercentages == {0, 50, 100}
\* random.random(), in hundredths
RandomDraws == {0, 75}
TestArticle == <<7>>
TestHighlights == {<<7>>, <<8>>}
GeneratedWords == {<<7>>, <<7, 8>>}

\* dataset["test"].map(convert_to_features, batched=True), one record per example
EncodedDataset(highlights) ==
    LET f == convert_to_features(
                [articles |-> [k \in 1..Len(highlights) |-> TestArticle],
                 highlights |-> highlights])
    IN  [k \in 1..Len(highlights) |->
            [source |-> f.source[k], target |-> f.target[k],
             source_mask |-> f.source_mask[k], target_mask |-> f.target_mask[k]]]

InitTestIdle ==
    /\ test_dataset = <<>>
    /\ batch_idx = 0
    /\ outputs = <<>>
    /\ predictions_file = AbsentFile
    /\ targets_file = AbsentFile
    /\ test_pc = "idle"

InitTest ==
    /\ \E sp \in SavePercentages, bs \in 1..MaxTestBatch,
          tbs \in {None} \cup {<<n>> : n \in 1..MaxTestBatch} :
          /\ (tbs # None => bs = 1)
          /\ hparams = [DefaultHparams EXCEPT
                           !.save_percentage = sp,
                           !.batch_size = bs,
                           !.test_batch_size = tbs]
    /\ \E n \in 1..MaxTestExamples :
          \E hs \in [1..n -> TestHighlights] : test_dataset = EncodedDataset(hs)
    /\ batch_idx = 0
    /\ outputs = <<>>
    /\ \E f \in {AbsentFile, StaleFile} :
          predictions_file = f /\ targets_file = f
    /\ test_pc = "start"

\* A plausible slip: the aggregator is kept on the object and reused.
KeptAggregator(previous) == previous

\* line 398: scoring.BootstrapAggregator(), a new aggregator holding no record,
\* whatever an earlier epoch's aggregator held
NewAggregator(previous) == <<>>

\* lines 399-403: the records of all batches, in batch order, then in-batch order
RECURSIVE RougeScoresList(_, _)
RougeScoresList(outs, k) ==
    IF k > Len(outs) THEN <<>>
    ELSE outs[k].rouge_scores \o RougeScoresList(outs, k + 1)

\* lines 404-405: aggregator.add_scores(score) for every record, in order
AddScores(agg, scores) == agg \o scores

\* test_dataloader (177-198)
TestDataloader ==
    /\ test_pc = "start"
    /\ hparams' = [hparams EXCEPT !.test_batch_size = EffectiveTestBatchSize(hparams)]
    /\ test_pc' = "loop"
    /\ UNCHANGED <<test_dataset, batch_idx, outputs, predictions_file, targets_file>>
    /\ UNCHANGED epochVars
    /\ UNCHANGED <<trimVars, frameVars, optVars, stepVars, trainVars>>

\* test_step on the next batch; an IndexError ends the run
TestStep ==
    /\ test_pc = "loop"
    /\ batch_idx < NumBatches(test_dataset, hparams.test_batch_size[1])
    /\ LET batch == BatchAt(test_dataset, batch_idx, hparams.test_batch_size[1])
       IN  \E words \in [1..Len(batch) -> GeneratedWords], r \in RandomDraws,
              index_to_select \in 0..(hparams.test_batch_size[1] - 1) :
              LET res == test_step(hparams, batch, words, r, index_to_select)
              IN  IF res.raised
                  THEN /\ test_pc' = "raised"
                       /\ UNCHANGED <<outputs, batch_idx>>
                  ELSE /\ outputs' = Append(outputs, res.output)
                       /\ batch_idx' = batch_idx + 1
                       /\ test_pc' = "loop"
    /\ UNCHANGED <<test_dataset, predictions_file, targets_file, hparams>>
    /\ UNCHANGED epochVars
    /\ UNCHANGED <<trimVars, frameVars, optVars, stepVars, trainVars>>

\* test_epoch_end (392-449), once every batch has been stepped. Both files are
\* opened "w+" (created or truncated) only under line 419. The mean of the
\* generation times and the rouge log do not touch the state kept here.
\* The aggregator is a local of the call; it is kept in the state after the
\* call so that what it received can be read.
TestEpochEnd ==
    /\ test_pc = "loop"
    /\ batch_idx = NumBatches(test_dataset, hparams.test_batch_size[1])
    /\ IF WritesFiles(hparams)
       THEN LET predictions == Retained(outputs, "prediction", 1)
                targets == Retained(outputs, "target", 1)
                n == Min(Len(predictions), Len(targets))
            IN  /\ predictions_file' = FileOf(WrittenLines(predictions, n, 1))
                /\ targets_file' = FileOf(WrittenLines(targets, n, 1))
       ELSE UNCHANGED <<predictions_file, targets_file>>
    /\ aggregator' = AddScores(NewAggregator(aggregator), RougeScoresList(outputs, 1))
    /\ epoch' = epoch + 1
    /\ test_pc' = "done"
    /\ UNCHANGED <<test_dataset, batch_idx, outputs, hparams>>
    /\ UNCHANGED <<trimVars, frameVars, optVars, stepVars, trainVars>>

\* a run of several test epochs: nothing is sampled for the files
\* (save_percentage 0.0, line 584), so only the scores are collected
InitEpochs ==
    /\ \E bs \in 1..MaxTestBatch,
          tbs \in {None} \cup {<<n>> : n \in 1..MaxTestBatch} :
          /\ (tbs # None => bs = 1)
          /\ hparams = [DefaultHparams EXCEPT
                           !.save_percentage = 0,
                           !.batch_size = bs,
                           !.test_batch_size = tbs]
    /\ \E n \in 1..MaxTestExamples :
          \E hs \in [1..n -> TestHighlights] : test_dataset = EncodedDataset(hs)
    /\ batch_idx = 0
    /\ outputs = <<>>
    /\ predictions_file = AbsentFile
    /\ targets_file = AbsentFile
    /\ test_pc = "start"

\* the trainer runs the test loop once more: test_dataloader is called again and
\* the steps' outputs are collected in a new list
BeginTestEpoch ==
    /\ test_pc = "done"
    /\ epoch < MaxTestEpochs
    /\ test_pc' = "start"
    /\ batch_idx' = 0
    /\ outputs' = <<>>
    /\ UNCHANGED <<test_dataset, predictions_file, targets_file, hparams>>
    /\ UNCHANGED epochVars
    /\ UNCHANGED <<trimVars, frameVars, optVars, stepVars, trainVars>>

(***************************************************************************)
(* _step, shared by training_step and validation_step                      *)
(* (src/abstractive.py 283-294)                                            *)
(***************************************************************************)
\* the literals of line 291: labels[labels == 0] = -100
LABEL_PAD_LITERAL == 0
IGNORE_INDEX == -100

\* labels[labels == value] = fill, on a copy
MaskedFill(m, value, fill) ==
    [i \in 1..Len(m) |-> [j \in 1..Len(m[i]) |-> IF m[i][j] = value THEN fill ELSE m[i][j]]]

\* lines 290-291: target.clone(), then the masked assignment
LabelsOf(target) == MaskedFill(target, LABEL_PAD_LITERAL, IGNORE_INDEX)

\* lines 284-292: what _step hands to self.forward
step_forward_args(batch) ==
    [source |-> batch.source,
     target |-> batch.target,
     source_mask |-> batch.source_mask,
     target_mask |-> batch.target_mask,
     labels |-> LabelsOf(batch.target)]

\* pad ids of tokenizers --model_name_or_path can load: 0 (bert), 1 (roberta)
TokenizerPadIds == {0, 1}
\* ids a target row is made of; whichever is not the pad id is a real token
StepIds == {0, 1, 7}

RightPadded(content, pad_id, width) == content \o Repeat(pad_id, width - Len(content))

\* rows of one width: real tokens, then the tokenizer's padding
StepRows(pad_id, width) ==
    {RightPadded(c, pad_id, width) :
        c \in UNION {[1..k -> StepIds \ {pad_id}] : k \in 1..width}}

StepBatchOf(target, pad_id) ==
    [source |-> target,
     target |-> target,
     source_mask |-> MaskOf(target, pad_id),
     target_mask |-> MaskOf(target, pad_id)]

InitStepIdle ==
    /\ tokenizer_pad_token_id = PAD_ID
    /\ step_batch = None
    /\ forward_args = None
    /\ step_pc = "idle"

InitStep ==
    /\ tokenizer_pad_token_id \in TokenizerPadIds
    /\ \E n \in 1..MaxRows, w \in 1..MaxCols :
          \E target \in [1..n -> StepRows(tokenizer_pad_token_id, w)] :
              step_batch = StepBatchOf(target, tokenizer_pad_token_id)
    /\ forward_args = None
    /\ step_pc = "start"

\* training_step / validation_step: _step(batch)
Step ==
    /\ step_pc = "start"
    /\ forward_args' = step_forward_args(step_batch)
    /\ step_pc' = "done"
    /\ UNCHANGED <<tokenizer_pad_token_id, step_batch>>
    /\ UNCHANGED <<trimVars, frameVars, hparams, optVars, testVars, epochVars, trainVars>>

InitEpochIdle ==
    /\ epoch = 0
    /\ aggregator = None

InitTrainIdle ==
    /\ batches_done = 0
    /\ global_step = 0
    /\ scheduler_steps = 0
    /\ train_pc = "idle"

(***************************************************************************)
(* The training run around configure_optimizers, as lines 205-209, 259-261 *)
(* and 275-276 describe it: the scheduler is moved forward every batch,    *)
(* global_step once every accumulate_grad_batches batches.                 *)
(***************************************************************************)
\* line 204: a step cap is in force
HasStepCap(hp) == hp.max_steps # None /\ hp.max_steps[1] # 0 /\ hp.max_steps[1] > 0

\* the run is over: max_steps optimizer updates under a step cap, or
\* len(train_dataloader) * max_epochs batches (lines 213-214)
TrainingFinished ==
    \/ batches_done >= num_train_batches * hparams.max_epochs
    \/ HasStepCap(hparams) /\ global_step >= hparams.max_steps[1]

\* a schedule is requested and the whole data is used (overfit_pct 0.0)
InitTrain ==
    /\ \E ms \in {None} \cup {<<n>> : n \in 1..MaxSteps}, agb \in 1..MaxAccum,
          me \in 1..MaxEpochs, ws \in 0..MaxWarmup, us \in {"linear", "onecycle"} :
          hparams = [DefaultHparams EXCEPT
                        !.max_steps = ms,
                        !.accumulate_grad_batches = agb,
                        !.max_epochs = me,
                        !.warmup_steps = ws,
                        !.use_scheduler = us]
    /\ num_train_batches \in 1..MaxTrainBatches
    /\ named_parameters = DefaultNamedParameters
    /\ t_total = None
    /\ optimizer = None
    /\ scheduler = None
    /\ opt_log = <<>>
    /\ opt_pc = "start"
    /\ batches_done = 0
    /\ global_step = 0
    /\ scheduler_steps = 0
    /\ train_pc = "fit"

\* one processed batch: the scheduler of scheduler_dict (interval "step") is
\* stepped, and the optimizer updates at the end of an accumulation cycle
TrainingStep ==
    /\ train_pc = "fit"
    /\ opt_pc = "returned"
    /\ scheduler # None
    /\ ~TrainingFinished
    /\ batches_done' = batches_done + 1
    /\ scheduler_steps' = scheduler_steps + 1
    /\ global_step' =
          IF (batches_done + 1) % hparams.accumulate_grad_batches = 0
          THEN global_step + 1
          ELSE global_step
    /\ train_pc' = "fit"
    /\ UNCHANGED <<trimVars, frameVars, optVars, testVars, epochVars, stepVars, hparams>>

\* the run ends
TrainingEnd ==
    /\ train_pc = "fit"
    /\ opt_pc = "returned"
    /\ TrainingFinished
    /\ train_pc' = "done"
    /\ UNCHANGED <<batches_done, global_step, scheduler_steps>>
    /\ UNCHANGED <<trimVars, frameVars, optVars, testVars, epochVars, stepVars, hparams>>

(***************************************************************************)
(* Specifications                                                          *)
(***************************************************************************)
InitSpecTrim == InitTrim /\ InitFrameIdle /\ InitHparamsIdle /\ InitOptIdle /\ InitTestIdle
    /\ InitEpochIdle /\ InitStepIdle /\ InitTrainIdle

NextTrim == TrimBatch \/ TrimAgain

SpecTrim == InitSpecTrim /\ [][NextTrim]_vars

InitSpecFrame == InitFrame /\ InitTrimIdle /\ InitHparamsIdle /\ InitOptIdle /\ InitTestIdle
    /\ InitEpochIdle /\ InitStepIdle /\ InitTrainIdle

NextFrame == ConvertToFeatures

SpecFrame == InitSpecFrame /\ [][NextFrame]_vars

InitSpecOpt == InitOpt /\ InitTrimIdle /\ InitFrameIdle /\ InitTestIdle
    /\ InitEpochIdle /\ InitStepIdle /\ InitTrainIdle

NextOpt == ConfigureNoScheduler \/ ConfigureWithScheduler \/ ConfigureInvalidScheduler

SpecOpt == InitSpecOpt /\ [][NextOpt]_vars

InitSpecTest == InitTest /\ InitTrimIdle /\ InitFrameIdle /\ InitOptIdle
    /\ InitEpochIdle /\ InitStepIdle /\ InitTrainIdle

NextTest == TestDataloader \/ TestStep \/ TestEpochEnd

SpecTest == InitSpecTest /\ [][NextTest]_vars

InitSpecEpochs == InitEpochs /\ InitTrimIdle /\ InitFrameIdle /\ InitOptIdle
    /\ InitEpochIdle /\ InitStepIdle /\ InitTrainIdle

NextEpochs == TestDataloader \/ TestStep \/ TestEpochEnd \/ BeginTestEpoch

SpecEpochs == InitSpecEpochs /\ [][NextEpochs]_vars

InitSpecTrain == InitTrain /\ InitTrimIdle /\ InitFrameIdle /\ InitTestIdle
    /\ InitEpochIdle /\ InitStepIdle

NextTrain == ConfigureWithScheduler \/ TrainingStep \/ TrainingEnd

SpecTrain == InitSpecTrain /\ [][NextTrain]_vars

InitSpecStep == InitStep /\ InitTrimIdle /\ InitFrameIdle /\ InitHparamsIdle /\ InitOptIdle
    /\ InitTestIdle /\ InitEpochIdle /\ InitTrainIdle

NextStep == Step

SpecStep == InitSpecStep /\ [][NextStep]_vars


(***************************************************************************)
(* C1: trim_batch returns exactly the columns, in their original order,    *)
(* that hold a non-pad value in some row; a column is dropped iff every    *)
(* row holds the pad id in it; a mask, when given, is sliced by the same   *)
(* columns, so ids and mask keep the same shape.                           *)
(***************************************************************************)
KeptCols == {j \in 1..NumCols(input_ids) :
                \E i \in 1..NumRows(input_ids) : input_ids[i][j] # pad_token_id}
RankOf(j) == Cardinality({k \in KeptCols : k <= j})
SlicedByKept(out, in) ==
    /\ Len(out) = Len(in)
    /\ \A i \in 1..Len(in) :
          /\ Len(out[i]) = Cardinality(KeptCols)
          /\ \A j \in KeptCols : out[i][RankOf(j)] = in[i][j]

C1_TrimKeepsNonPadColumns ==
    trim_pc \in {"trimmed", "retrimmed"} =>
        /\ SlicedByKept(trim_out.ids, input_ids)
        /\ (attention_mask = None => trim_out.mask = None)
        /\ (attention_mask # None => SlicedByKept(trim_out.mask, attention_mask))

C1_Witness ==
    /\ trim_pc = "trimmed"
    /\ input_ids = SpecExampleBatch
    /\ pad_token_id = 0
    /\ attention_mask # None
    /\ trim_out.ids = << <<5, 0>>, <<5, 7>> >>
    /\ trim_out.mask = << <<1, 0>>, <<1, 1>> >>

(***************************************************************************)
(* C2: trim_batch is idempotent: applied to its own output with the same   *)
(* pad id it returns that output unchanged.                                *)
(***************************************************************************)
C2_TrimIdempotent ==
    trim_pc = "retrimmed" => trim_out2 = trim_out

C2_Witness ==
    /\ trim_pc = "retrimmed"
    /\ attention_mask # None
    /\ NumCols(trim_out.ids) < NumCols(input_ids)
    /\ NumCols(trim_out.ids) > 0
    /\ trim_out2 = trim_out

(***************************************************************************)
(* C3: whatever the tokenized length of the target text (truncated or      *)
(* not), the framed target_ids has length exactly max_len, starts with the *)
(* begin-of-sequence id, and its last non-pad id is the end-of-sequence id.*)
(***************************************************************************)
NonPadPositions(row) == {j \in 1..Len(row) : row[j] # PAD_ID}
SetMax(S) == CHOOSE x \in S : \A y \in S : y <= x

C3_TargetFramed ==
    frame_pc = "done" =>
        \A i \in 1..Len(features.target) :
            LET row == features.target[i]
            IN  /\ Len(row) = max_len
                /\ row[1] = target_boseq_token_id
                /\ NonPadPositions(row) # {}
                /\ row[SetMax(NonPadPositions(row))] = target_eoseq_token_id

\* a truncated target: more word pieces than fit between the markers
C3_Witness ==
    /\ frame_pc = "done"
    /\ \E i \in 1..Len(example_batch.highlights) :
          /\ Len(example_batch.highlights[i]) > max_len - 4
          /\ Len(features.target[i]) = max_len
          /\ features.target[i][max_len] = target_eoseq_token_id

(***************************************************************************)
(* C4: target_mask has the length max_len of target_ids, is 1 exactly      *)
(* where target_ids holds a real (non-pad) token, i.e. all ones over the   *)
(* framed ids and 0 exactly on the right padding.                          *)
(***************************************************************************)
C4_MaskMatchesIds ==
    frame_pc = "done" =>
        /\ Len(features.target_mask) = Len(features.target)
        /\ \A i \in 1..Len(features.target) :
              LET row == features.target[i]
                  mask == features.target_mask[i]
              IN  /\ Len(mask) = max_len
                  /\ Len(row) = max_len
                  /\ \A j \in 1..max_len :
                        /\ mask[j] \in {0, 1}
                        /\ (mask[j] = 1 <=> row[j] # PAD_ID)
                        /\ (j > 1 /\ mask[j] = 1 => mask[j - 1] = 1)

\* a short target: padding after the end marker, mask 0 there and 1 before
C4_Witness ==
    /\ frame_pc = "done"
    /\ \E i \in 1..Len(features.target) :
          /\ features.target[i][max_len] = PAD_ID
          /\ features.target_mask[i][max_len] = 0
          /\ features.target_mask[i][max_len - 1] = 1
          /\ features.target[i][max_len - 1] = target_eoseq_token_id

(***************************************************************************)
(* C5: t_total is max_steps x accumulate_grad_batches when a step cap is   *)
(* configured and positive (accumulation 4, max_steps 100 give 400);       *)
(* otherwise floor(num_train_batches x max_epochs / accumulate_grad_       *)
(* batches), replaced by floor(t_total x overfit fraction) when an overfit *)
(* fraction is configured.                                                 *)
(***************************************************************************)
\* floor(a / b) for a >= 0, b > 0, stated by its defining inequality
FloorOf(a, b) == CHOOSE q \in 0..a : q * b <= a /\ a < (q + 1) * b

ClaimedTotal ==
    IF hparams.max_steps # None /\ hparams.max_steps[1] > 0
    THEN hparams.max_steps[1] * hparams.accumulate_grad_batches
    ELSE LET t == FloorOf(num_train_batches * hparams.max_epochs,
                          hparams.accumulate_grad_batches)
         IN  IF hparams.overfit_pct > 0
             THEN FloorOf(t * hparams.overfit_pct, 100)
             ELSE t

C5_TotalSteps ==
    opt_pc \in {"returned", "raised"} => t_total = <<ClaimedTotal>>

C5_Witness ==
    /\ opt_pc = "returned"
    /\ hparams.max_steps = <<100>>
    /\ hparams.accumulate_grad_batches = 4
    /\ t_total = <<400>>

(***************************************************************************)
(* C6: the named parameters are split into two groups; every parameter is  *)
(* in exactly one; it is in the zero-weight-decay group iff its name       *)
(* contains "bias" or "LayerNorm.weight", and in the group with the        *)
(* configured weight decay otherwise.                                      *)
(***************************************************************************)
Elems(seq) == {seq[k] : k \in 1..Len(seq)}
ContainsBias(n) == \E i \in 1..Len(n) : n[i] = "bias"
ContainsLayerNormWeight(n) ==
    \E i \in 1..Len(n) :
        /\ i + 2 <= Len(n)
        /\ n[i] = "LayerNorm" /\ n[i + 1] = "." /\ n[i + 2] = "weight"

C6_ParameterGroups ==
    opt_pc \in {"returned", "raised"} =>
        LET decayed == optimizer.param_groups[1]
            undecayed == optimizer.param_groups[2]
        IN  /\ Len(optimizer.param_groups) = 2
            /\ decayed.weight_decay = hparams.weight_decay
            /\ undecayed.weight_decay = 0
            /\ Elems(decayed.params) \cup Elems(undecayed.params) = Elems(named_parameters)
            /\ Elems(decayed.params) \cap Elems(undecayed.params) = {}
            /\ Len(decayed.params) + Len(undecayed.params) = Len(named_parameters)
            /\ \A n \in Elems(named_parameters) :
                  n \in Elems(undecayed.params)
                      <=> (ContainsBias(n) \/ ContainsLayerNormWeight(n))

C6_Witness ==
    /\ opt_pc = "returned"
    /\ Len(named_parameters) = 3
    /\ ContainsBias(named_parameters[2])
    /\ ~ContainsLayerNormWeight(named_parameters[2])
    /\ optimizer.param_groups[1].params = <<QueryName>>
    /\ optimizer.param_groups[2].params = <<LayerNormName, named_parameters[2]>>

(***************************************************************************)
(* C7: with a schedule kind other than linear or onecycle,                 *)
(* configure_optimizers logs the invalid value and does not raise: it      *)
(* completes and leaves the optimizer configured with no schedule.         *)
(***************************************************************************)
C7_InvalidKindIsNotFatal ==
    (opt_pc \notin {"idle", "start"}
        /\ hparams.use_scheduler \notin {NoScheduler, "linear", "onecycle"}) =>
            /\ opt_log # <<>>
            /\ opt_pc = "returned"
            /\ optimizer # None
            /\ scheduler = None

(***************************************************************************)
(* C8: at test epoch end, when at least one example was retained, the      *)
(* prediction file and the target file each hold exactly one line per      *)
(* retained example, in batch order, so line i of both files belongs to    *)
(* the same example.                                                       *)
(***************************************************************************)
SomeRetained == \E k \in 1..Len(outputs) : outputs[k].prediction # None

C8_OneLinePerRetainedExample ==
    (test_pc = "done" /\ SomeRetained) =>
        /\ predictions_file = FileOf(Retained(outputs, "prediction", 1))
        /\ targets_file = FileOf(Retained(outputs, "target", 1))

(***************************************************************************)
(* C9: every test step, also on a final batch smaller than the configured  *)
(* test batch size, completes and retains either nothing (prediction and   *)
(* target both None) or the prediction and the target of one same example  *)
(* of its batch; so the retained predictions and targets are equally many. *)
(***************************************************************************)
PairedOutput(out) ==
    \/ out.prediction = None /\ out.target = None
    \/ \E k \in 1..Len(out.rouge_scores) :
          /\ out.prediction = <<out.rouge_scores[k].prediction>>
          /\ out.target = <<out.rouge_scores[k].target>>

C9_TestStepCompletesPaired ==
    /\ test_pc # "raised"
    /\ \A k \in 1..Len(outputs) : PairedOutput(outputs[k])
    /\ Len(Retained(outputs, "prediction", 1)) = Len(Retained(outputs, "target", 1))

(***************************************************************************)
(* C10: with save-percentage = 0 no test step retains a prediction or a    *)
(* target, and after test epoch end the prediction file and the target     *)
(* file are both empty.                                                    *)
(***************************************************************************)
NothingRetained ==
    \A k \in 1..Len(outputs) : outputs[k].prediction = None /\ outputs[k].target = None

C10_FilesEmptyAtZero ==
    (test_pc = "done" /\ hparams.save_percentage = 0) =>
        /\ NothingRetained
        /\ predictions_file = FileOf(<<>>)
        /\ targets_file = FileOf(<<>>)

\* C10 as amended: with save-percentage = 0 no test step retains a prediction or
\* a target, and no step of the test loop, test epoch end included, creates,
\* truncates or writes the prediction file or the target file.
C10_FilesUntouchedAtZero ==
    /\ [](hparams.save_percentage = 0 => NothingRetained)
    /\ [][hparams.save_percentage = 0 =>
             (predictions_file' = predictions_file /\ targets_file' = targets_file)]_vars

C10_Witness ==
    /\ test_pc = "done"
    /\ hparams.save_percentage = 0
    /\ Len(outputs) >= 2
    /\ NothingRetained
    /\ predictions_file = AbsentFile
    /\ targets_file = AbsentFile

(***************************************************************************)
(* C11: in every train/validate step the label tensor passed to the model  *)
(* equals the batch's target ids wherever they are not the tokenizer's pad *)
(* id and equals the ignore sentinel (-100) wherever they are, for any pad *)
(* id the tokenizer defines; the batch's own target ids are unchanged.     *)
(***************************************************************************)
C11_LabelsIgnoreTokenizerPad ==
    step_pc = "done" =>
        /\ forward_args.target = step_batch.target
        /\ Len(forward_args.labels) = Len(step_batch.target)
        /\ \A i \in 1..Len(step_batch.target) :
              /\ Len(forward_args.labels[i]) = Len(step_batch.target[i])
              /\ \A j \in 1..Len(step_batch.target[i]) :
                    forward_args.labels[i][j] =
                        IF step_batch.target[i][j] = tokenizer_pad_token_id
                        THEN -100
                        ELSE step_batch.target[i][j]

(***************************************************************************)
(* C12: for any sequence of test epochs, the aggregator used at an epoch's *)
(* end is freshly constructed and receives exactly one Rouge Score Record  *)
(* per example of every batch of that epoch, flattened in batch order and  *)
(* then in-batch order, and no record of an earlier epoch.                 *)
(***************************************************************************)
TargetTextOf(example) == ids_to_clean_text(<<example.target>>)[1]

C13_AdvancesWithinTotal ==
    (train_pc \in {"fit", "done"} /\ scheduler # None) =>
        /\ scheduler.total_steps = t_total[1]
        /\ scheduler_steps <= t_total[1]

====
